---- MODULE Spec2Model ----
(***************************************************************************)
(* Model of devops-pipeline-example.py: one process run of main(), which   *)
(* parses the command line, constructs a CXoneDeploymentPipeline and runs  *)
(* run_pipeline (validate -> tests -> deploy) against the remote API.      *)
(* The remote service, the file system, the configuration file and the     *)
(* process environment are inputs: Init draws them from small sets and     *)
(* every stage draws the response of its request with \E.                  *)
(***************************************************************************)
EXTENDS Integers, Sequences, FiniteSets, TLC

(* ------------------------------ bounds -------------------------------- *)

\* longest errors / failures list a response carries
MaxDiag == 2
\* largest total / passed count a tests/run response reports
MaxTests == 2

(* --------------------------- value domains ---------------------------- *)

\* Python None where a string is expected: a missing key, an unset
\* environment variable, a JSON null
NoField == "<None>"

\* dict.get(key, 0) on a response that has no such key: the key is missing
NoCount == -1

\* the process has not called sys.exit yet
Running == -1

\* Python truthiness of an optional string: None and "" are falsy
Truthy(s) == s \notin {NoField, ""}

\* PyOr with the operands the other way round: the second wins when set
PyOr_SecondFirst(a, b) == IF Truthy(b) THEN b ELSE a

\* a or b
PyOr(a, b) == IF Truthy(a) THEN a ELSE b

\* choices of --environment
Environments == {"dev", "staging", "prod"}

SeqsUpTo(S, n) == UNION {[1..k -> S] : k \in 0..n}

(* ------------------------------ paths --------------------------------- *)

\* A path is its directory (a sequence of components), the part of the
\* base name before the first '.', and the rest of the base name.
ScriptPath == [dir |-> <<"flows">>, stem |-> "greeting", rest |-> ".flow"]

\* os.path.basename(script_path).split('.')[0]
ScriptName(p) == p.stem

\* os.path.join(os.path.dirname(p), 'tests', f"{name}_tests.yml")
TestSuitePath(p) ==
    [dir |-> Append(p.dir, "tests"), stem |-> ScriptName(p), rest |-> "_tests.yml"]

\* a suite lying next to the script instead of under tests/
StrayPath == [dir |-> ScriptPath.dir, stem |-> "greeting", rest |-> "_tests.yml"]

Paths == {ScriptPath, TestSuitePath(ScriptPath), StrayPath}

Missing == "<missing>"
Unreadable == "<unreadable>"
BadYaml == "<not yaml>"

\* os.path.exists(p)
Exists(f, p) == f[p] # Missing

\* open(p, 'r') succeeds
Opens(f, p) == f[p] \notin {Missing, Unreadable}

\* yaml.safe_load succeeds on the file's text
YamlLoads(f, p) == f[p] # BadYaml

(* --------------------------- configuration ---------------------------- *)

NoEntry == [kind |-> "none", business_unit_id |-> NoField]
EmptyEntry == [kind |-> "empty", business_unit_id |-> NoField]
DevEntry == [kind |-> "settings", business_unit_id |-> "BU-1"]

\* no 'environments' key, or an empty mapping
EnvMapNone == [e \in Environments |-> NoEntry]
\* dev configured, staging present but empty, prod absent
EnvMapDev ==
    [e \in Environments |->
        IF e = "dev" THEN DevEntry ELSE IF e = "staging" THEN EmptyEntry ELSE NoEntry]

CfgUnset ==
    [kind |-> "unset", api_base_url |-> NoField, api_key |-> NoField,
     environments |-> EnvMapNone]

\* what the file at --config holds: unreadable (or not YAML), an empty
\* document (safe_load gives None), or a mapping. A mapping without an
\* 'environments' key behaves as EnvMapDev does for prod: the lookup of
\* line 193 gives {} either way.
ConfigFiles ==
    {[kind |-> k, api_base_url |-> NoField, api_key |-> NoField,
      environments |-> EnvMapNone] : k \in {"unreadable", "null"}}
    \cup {[kind |-> "mapping", api_base_url |-> "https://cxone.example/api",
            api_key |-> a, environments |-> m] :
            a \in {NoField, "", "cfg-key"}, m \in {EnvMapDev}}

(* ------------------------------- log ---------------------------------- *)

Line(level, text, s1, s2, n1, n2) ==
    [level |-> level, text |-> text, s1 |-> s1, s2 |-> s2, n1 |-> n1, n2 |-> n2]
Info(text) == Line("INFO", text, "", "", 0, 0)
Warn(text) == Line("WARNING", text, "", "", 0, 0)
Err(text) == Line("ERROR", text, "", "", 0, 0)

(* ---------------------------- remote API ------------------------------ *)

\* the request raises inside _api_request: no connection, a non-success
\* HTTP status (raise_for_status), a body that is not JSON
RaiseKinds == {"transport", "http", "unparsable"}
\* the body is JSON but not an object, so response.get raises in the stage
NonObject == "nonobject"
NoBody == RaiseKinds \cup {NonObject}

Diagnostics ==
    {[message |-> "unexpected token", line |-> 3],
     [message |-> "unknown action", line |-> 7]}

Failures ==
    {[name |-> "greets caller", message |-> "timeout"],
     [name |-> "routes call", message |-> "wrong queue"]}

ValidateResponses ==
    {[kind |-> k, valid |-> "absent", errors |-> <<>>] : k \in NoBody}
    \cup {[kind |-> "object", valid |-> v, errors |-> es] :
            v \in {"absent", "true", "false"}, es \in SeqsUpTo(Diagnostics, MaxDiag)}

Counts == {NoCount} \cup (0..MaxTests)

TestResponses ==
    {[kind |-> k, total |-> NoCount, passed |-> NoCount, failures |-> <<>>] :
        k \in NoBody}
    \cup {[kind |-> "object", total |-> t, passed |-> p, failures |-> fl] :
            t \in Counts, p \in Counts, fl \in SeqsUpTo(Failures, MaxDiag)}

DeployResponses ==
    {[kind |-> k, deploymentId |-> NoField, message |-> NoField] : k \in NoBody}
    \cup {[kind |-> "object", deploymentId |-> d, message |-> m] :
            d \in {NoField, "", "dep-42"}, m \in {NoField, "quota exceeded"}}

\* Payload with the business-unit id taken from the wrong argument
Payload_WrongBusinessUnit(content, environment, businessUnitId, scriptName) ==
    [content |-> content, environment |-> environment,
     businessUnitId |-> scriptName, scriptName |-> scriptName]

\* the JSON payload of a request
Payload(content, environment, businessUnitId, scriptName) ==
    [content |-> content, environment |-> environment,
     businessUnitId |-> businessUnitId, scriptName |-> scriptName]

\* ApiRequest that sends a failed request a second time before giving up
ApiRequest_RetryOnce(endpoint, data, base, key, resp) ==
    LET req == [base |-> base, endpoint |-> endpoint, auth |-> key, data |-> data]
    IN  [raised |-> resp.kind \in RaiseKinds,
         logs |-> IF resp.kind \in RaiseKinds
                  THEN <<Err("API request failed")>> ELSE <<>>,
         sent |-> IF resp.kind \in RaiseKinds THEN <<req, req>> ELSE <<req>>]

\* _api_request(endpoint, 'POST', data): the request is sent with the bearer
\* credential; a RequestException is logged and re-raised, otherwise the
\* parsed body is returned
ApiRequest(endpoint, data, base, key, resp) ==
    [raised |-> resp.kind \in RaiseKinds,
     logs |-> IF resp.kind \in RaiseKinds THEN <<Err("API request failed")>> ELSE <<>>,
     sent |-> <<[base |-> base, endpoint |-> endpoint, auth |-> key, data |-> data]>>]

\* response.get('total', 0)
GetCount(c) == IF c = NoCount THEN 0 ELSE c

(* ------------------------------ stages -------------------------------- *)

\* a stage's try/except Exception: the exception is logged and the stage
\* returns False
ExcText == "<str(e)>"

\* Caught that logs and re-raises, as _api_request does
Caught_Reraise(body, text) ==
    IF body.out = "raise"
    THEN [body EXCEPT !.logs = Append(@, Line("ERROR", text, ExcText, "", 0, 0))]
    ELSE body

Caught(body, text) ==
    IF body.out = "raise"
    THEN [body EXCEPT !.out = "False",
                      !.logs = Append(@, Line("ERROR", text, ExcText, "", 0, 0))]
    ELSE body

\* ValidationErrors logging the first diagnostic only
ValidationErrors_FirstOnly(errors) ==
    [i \in 1..(IF Len(errors) > 0 THEN 1 ELSE 0) |->
        Line("ERROR", "Validation error", errors[i].message, "", errors[i].line, 0)]

ValidationErrors(errors) ==
    [i \in 1..Len(errors) |->
        Line("ERROR", "Validation error", errors[i].message, "", errors[i].line, 0)]

ValidateBody(script_path, f, base, key, resp) ==
    IF ~Opens(f, script_path)
    THEN [out |-> "raise", logs |-> <<>>, reqs |-> <<>>, opens |-> {script_path}]
    ELSE LET r == ApiRequest("scripts/validate",
                             Payload(f[script_path], NoField, NoField, NoField),
                             base, key, resp)
         IN  IF r.raised \/ resp.kind = NonObject
             THEN [out |-> "raise", logs |-> r.logs, reqs |-> r.sent,
                   opens |-> {script_path}]
             ELSE IF resp.valid = "true"
             THEN [out |-> "True",
                   logs |-> <<Info("Script validation successful")>>,
                   reqs |-> r.sent, opens |-> {script_path}]
             ELSE [out |-> "False",
                   logs |-> ValidationErrors(resp.errors),
                   reqs |-> r.sent, opens |-> {script_path}]

validate_script(script_path, f, base, key, resp) ==
    LET b == Caught(ValidateBody(script_path, f, base, key, resp), "Script validation failed")
    IN  [b EXCEPT !.logs = <<Info("Validating script")>> \o @]

TestFailures(failures) ==
    [i \in 1..Len(failures) |->
        Line("ERROR", "Test failure", failures[i].name, failures[i].message, 0, 0)]

\* TestsPassed comparing with >= instead of ==
TestsPassed_AtLeast(resp) == GetCount(resp.passed) >= GetCount(resp.total)

\* passed_tests == total_tests
TestsPassed(resp) == GetCount(resp.passed) = GetCount(resp.total)

RunTestsBody(test_suite_path, f, base, key, resp) ==
    IF ~Opens(f, test_suite_path) \/ ~YamlLoads(f, test_suite_path)
    THEN [out |-> "raise", logs |-> <<>>, reqs |-> <<>>, opens |-> {test_suite_path}]
    ELSE LET r == ApiRequest("tests/run",
                             Payload(f[test_suite_path], NoField, NoField, NoField),
                             base, key, resp)
         IN  IF r.raised \/ resp.kind = NonObject
             THEN [out |-> "raise", logs |-> r.logs, reqs |-> r.sent,
                   opens |-> {test_suite_path}]
             ELSE [out |-> IF TestsPassed(resp) THEN "True" ELSE "False",
                   logs |-> <<Line("INFO", "Tests completed", "", "",
                                   GetCount(resp.passed), GetCount(resp.total))>>
                            \o TestFailures(resp.failures),
                   reqs |-> r.sent, opens |-> {test_suite_path}]

run_tests(test_suite_path, f, base, key, resp) ==
    LET b == Caught(RunTestsBody(test_suite_path, f, base, key, resp), "Test execution failed")
    IN  [b EXCEPT !.logs = <<Info("Running test suite")>> \o @]

\* EnvConfig falling back to the dev settings for an unknown environment
EnvConfig_DevFallback(cfg, environment) ==
    IF cfg.environments[environment].kind = "none"
    THEN cfg.environments["dev"]
    ELSE cfg.environments[environment]

\* self.config.get('environments', {}).get(environment, {})
EnvConfig(cfg, environment) == cfg.environments[environment]

\* ConfigAfterLookup taking the entry out of the mapping (dict.pop)
ConfigAfterLookup_Pop(cfg, environment) ==
    [cfg EXCEPT !.environments[environment] = NoEntry]

\* self.config after the lookup of line 193: dict.get leaves it as it was
ConfigAfterLookup(cfg, environment) == cfg

\* NotConfigured with the check left out
NotConfigured_Never(env_config) == FALSE

\* not env_config: no entry, or an entry without settings
NotConfigured(env_config) == env_config.kind # "settings"

\* HasDeploymentId taking any answered request for a deployment
HasDeploymentId_AnyAnswer(resp) == resp.kind = "object"

\* if deployment_id:
HasDeploymentId(resp) == Truthy(resp.deploymentId)

\* response.get('message', 'Unknown error')
GetMessage(resp) == IF resp.message = NoField THEN "Unknown error" ELSE resp.message

DeployBody(script_path, environment, cfg, f, base, key, resp) ==
    IF ~Opens(f, script_path)
    THEN [out |-> "raise", logs |-> <<>>, reqs |-> <<>>, opens |-> {script_path},
          config |-> cfg]
    ELSE IF NotConfigured(EnvConfig(cfg, environment))
    THEN [out |-> "False",
          logs |-> <<Line("ERROR", "Environment configuration not found",
                          environment, "", 0, 0)>>,
          reqs |-> <<>>,
          opens |-> {script_path}, config |-> ConfigAfterLookup(cfg, environment)]
    ELSE LET r == ApiRequest("scripts/deploy",
                             Payload(f[script_path], environment,
                                     EnvConfig(cfg, environment).business_unit_id,
                                     ScriptName(script_path)),
                             base, key, resp)
         IN  IF r.raised \/ resp.kind = NonObject
             THEN [out |-> "raise", logs |-> r.logs, reqs |-> r.sent,
                   opens |-> {script_path},
                   config |-> ConfigAfterLookup(cfg, environment)]
             ELSE IF HasDeploymentId(resp)
             THEN [out |-> "True",
                   logs |-> <<Line("INFO", "Deployment successful",
                                   resp.deploymentId, "", 0, 0)>>,
                   reqs |-> r.sent,
                   opens |-> {script_path},
                   config |-> ConfigAfterLookup(cfg, environment)]
             ELSE [out |-> "False",
                   logs |-> <<Line("ERROR", "Deployment failed",
                                   GetMessage(resp), "", 0, 0)>>,
                   reqs |-> r.sent,
                   opens |-> {script_path},
                   config |-> ConfigAfterLookup(cfg, environment)]

deploy_to_environment(script_path, environment, cfg, f, base, key, resp) ==
    LET b == Caught(DeployBody(script_path, environment, cfg, f, base, key, resp),
                    "Deployment failed")
    IN  [b EXCEPT !.logs = <<Info("Deploying script")>> \o @]

(* --------------------------- run_pipeline ----------------------------- *)

\* StageGate without its 'return False': the failure is logged and the
\* pipeline goes on to the next stage
StageGate_NoReturn(out, stage, next) ==
    IF out = "raise"
    THEN [pc |-> "exit", result |-> "raise", logs |-> <<>>]
    ELSE IF out # "True"
    THEN [pc |-> next, result |-> "unset",
          logs |-> <<Line("ERROR", "Pipeline failed", stage, "", 0, 0)>>]
    ELSE [pc |-> next, result |-> "unset", logs |-> <<>>]

\* StageGate that does not look at what validate_script returned
StageGate_ValidationIgnored(out, stage, next) ==
    IF out = "raise"
    THEN [pc |-> "exit", result |-> "raise", logs |-> <<>>]
    ELSE IF out # "True" /\ stage # "validation"
    THEN [pc |-> "exit", result |-> "False",
          logs |-> <<Line("ERROR", "Pipeline failed", stage, "", 0, 0)>>]
    ELSE [pc |-> next, result |-> "unset", logs |-> <<>>]

\* StageGate whose failure line always names the validation stage
StageGate_Mislabelled(out, stage, next) ==
    IF out = "raise"
    THEN [pc |-> "exit", result |-> "raise", logs |-> <<>>]
    ELSE IF out # "True"
    THEN [pc |-> "exit", result |-> "False",
          logs |-> <<Line("ERROR", "Pipeline failed", "validation", "", 0, 0)>>]
    ELSE [pc |-> next, result |-> "unset", logs |-> <<>>]

\* StageGate that does not look at what deploy_to_environment returned
StageGate_DeploymentIgnored(out, stage, next) ==
    IF out = "raise"
    THEN [pc |-> "exit", result |-> "raise", logs |-> <<>>]
    ELSE IF out # "True" /\ stage # "deployment"
    THEN [pc |-> "exit", result |-> "False",
          logs |-> <<Line("ERROR", "Pipeline failed", stage, "", 0, 0)>>]
    ELSE [pc |-> next, result |-> "unset", logs |-> <<>>]

\* What run_pipeline does with a stage's return value: a false stage ends
\* the pipeline with False and the 'Pipeline failed at <stage> stage' line;
\* an exception leaving the stage leaves run_pipeline too.
StageGate(out, stage, next) ==
    IF out = "raise"
    THEN [pc |-> "exit", result |-> "raise", logs |-> <<>>]
    ELSE IF out # "True"
    THEN [pc |-> "exit", result |-> "False",
          logs |-> <<Line("ERROR", "Pipeline failed", stage, "", 0, 0)>>]
    ELSE [pc |-> next, result |-> "unset", logs |-> <<>>]

\* TestDecision without the os.path.exists check
TestDecision_NoExistsCheck(skip_tests, f, script_path) ==
    IF skip_tests THEN "skip" ELSE "run"

\* TestDecision that does not look at skip_tests
TestDecision_SkipIgnored(skip_tests, f, script_path) ==
    IF Exists(f, TestSuitePath(script_path)) THEN "run" ELSE "warn"

\* Step 2's decision: "skip" (skip_tests), "run" (the suite file exists) or
\* "warn" (no file at the conventional path)
TestDecision(skip_tests, f, script_path) ==
    IF skip_tests THEN "skip"
    ELSE IF Exists(f, TestSuitePath(script_path)) THEN "run"
    ELSE "warn"

(* ------------------------------- main --------------------------------- *)

\* parser.parse_args(): a usage error exits with status 2, --help with 0
ParseExit(outcome) == IF outcome = "help" THEN 0 ELSE 2

\* CXoneDeploymentPipeline(config_path)
PipelineInit(cfg, envk) ==
    IF cfg.kind = "unreadable"
    THEN [raised |-> TRUE, config |-> CfgUnset, api_base_url |-> NoField,
          api_key |-> NoField,
          logs |-> <<Err("Failed to load configuration")>>]
    ELSE IF cfg.kind = "null"
    THEN [raised |-> TRUE, config |-> CfgUnset, api_base_url |-> NoField,
          api_key |-> NoField, logs |-> <<>>]
    ELSE IF ~Truthy(PyOr(envk, cfg.api_key))
    THEN [raised |-> TRUE, config |-> CfgUnset, api_base_url |-> NoField,
          api_key |-> NoField, logs |-> <<>>]
    ELSE [raised |-> FALSE, config |-> cfg, api_base_url |-> cfg.api_base_url,
          api_key |-> PyOr(envk, cfg.api_key),
          logs |-> <<Info("Initialized CXone deployment pipeline")>>]

\* ExitStatus that exits with 0 whenever run_pipeline returned
ExitStatus_IgnoresResult(res) == IF res = "raise" THEN 1 ELSE 0

\* sys.exit(0 if success else 1); an exception reaching main exits with 1
ExitStatus(res) == IF res = "True" THEN 0 ELSE 1

(* ------------------------------ state --------------------------------- *)

VARIABLES
    pc,         \* position of the process in main / run_pipeline
    argv,       \* the command line
    cfgFile,    \* the configuration file
    envKey,     \* the CXONE_API_KEY environment variable
    fs,         \* the files at Paths
    config,     \* self.config
    api_base_url, \* self.api_base_url
    api_key,    \* self.api_key
    opened,     \* the paths the process has called open() on
    requests,   \* the requests sent to the remote API, in order
    answers,    \* what the remote API answered to each stage's request
    log,        \* the lines logged, in order
    ret,        \* what each stage returned
    result,     \* what run_pipeline returned
    exitCode    \* the process exit status

vars == <<pc, argv, cfgFile, envKey, fs, config, api_base_url, api_key, opened,
          requests, answers, log, ret, result, exitCode>>

\* the fields of the pipeline object
self == <<config, api_base_url, api_key>>

inputs == <<argv, cfgFile, envKey, fs>>

Stages == {"validate", "tests", "deploy"}

NoAnswer ==
    [validate |-> [kind |-> "none", valid |-> "absent", errors |-> <<>>],
     tests |-> [kind |-> "none", total |-> NoCount, passed |-> NoCount,
                failures |-> <<>>],
     deploy |-> [kind |-> "none", deploymentId |-> NoField, message |-> NoField]]

Argvs ==
    {[outcome |-> o, script |-> ScriptPath, environment |-> "dev",
      skip_tests |-> FALSE] : o \in {"usage", "help"}}
    \cup {[outcome |-> "ok", script |-> ScriptPath, environment |-> e,
            skip_tests |-> s] : e \in Environments, s \in BOOLEAN}

FileSystems ==
    {[p \in Paths |->
        IF p = ScriptPath THEN a
        ELSE IF p = TestSuitePath(ScriptPath) THEN b
        ELSE "suite: stray"] :
        a \in {Missing, Unreadable, "flow: greet"},
        b \in {Missing, Unreadable, BadYaml, "suite: greet"}}

Init ==
    /\ pc = "parse"
    /\ argv \in Argvs
    /\ cfgFile \in ConfigFiles
    /\ envKey \in {NoField, "", "env-key"}
    /\ fs \in FileSystems
    /\ config = CfgUnset
    /\ api_base_url = NoField
    /\ api_key = NoField
    /\ opened = {}
    /\ requests = <<>>
    /\ answers = NoAnswer
    /\ log = <<>>
    /\ ret = [s \in Stages |-> "unset"]
    /\ result = "unset"
    /\ exitCode = Running

\* main, line 278: the command line is parsed before anything else
ParseArgs ==
    /\ pc = "parse"
    /\ IF argv.outcome = "ok"
       THEN /\ pc' = "construct"
            /\ exitCode' = exitCode
       ELSE /\ pc' = "halted"
            /\ exitCode' = ParseExit(argv.outcome)
    /\ UNCHANGED <<inputs, self, opened, requests, answers, log, ret, result>>

\* main, line 281 (and 284-286 when the constructor raises)
Construct ==
    /\ pc = "construct"
    /\ LET c == PipelineInit(cfgFile, envKey)
       IN  /\ config' = c.config
           /\ api_base_url' = c.api_base_url
           /\ api_key' = c.api_key
           /\ IF c.raised
              THEN /\ pc' = "halted"
                   /\ log' = log \o c.logs \o <<Err("Pipeline execution failed")>>
                   /\ exitCode' = ExitStatus("raise")
              ELSE /\ pc' = "validate"
                   /\ log' = log \o c.logs
                   /\ exitCode' = exitCode
    /\ UNCHANGED <<inputs, opened, requests, answers, ret, result>>

\* the answer a stage received, if it sent a request
Answered(stage, s, resp) ==
    IF s.reqs = <<>> THEN answers ELSE [answers EXCEPT ![stage] = resp]

\* run_pipeline, lines 238-243
Validate ==
    /\ pc = "validate"
    /\ \E resp \in ValidateResponses :
          LET s == validate_script(argv.script, fs, api_base_url, api_key, resp)
              g == StageGate(s.out, "validation", "test")
          IN  /\ requests' = requests \o s.reqs
              /\ opened' = opened \cup s.opens
              /\ answers' = Answered("validate", s, resp)
              /\ log' = log \o <<Info("Starting deployment pipeline")>> \o s.logs \o g.logs
              /\ ret' = [ret EXCEPT !["validate"] = s.out]
              /\ result' = g.result
              /\ pc' = g.pc
    /\ UNCHANGED <<inputs, self, exitCode>>

\* run_pipeline, lines 245-258
Test ==
    /\ pc = "test"
    /\ LET d == TestDecision(argv.skip_tests, fs, argv.script)
       IN  IF d = "run"
           THEN \E resp \in TestResponses :
                  LET s == run_tests(TestSuitePath(argv.script), fs, api_base_url,
                                     api_key, resp)
                      g == StageGate(s.out, "testing", "deploy")
                  IN  /\ requests' = requests \o s.reqs
                      /\ opened' = opened \cup s.opens
                      /\ answers' = Answered("tests", s, resp)
                      /\ log' = log \o s.logs \o g.logs
                      /\ ret' = [ret EXCEPT !["tests"] = s.out]
                      /\ result' = g.result
                      /\ pc' = g.pc
           ELSE /\ log' = IF d = "warn"
                          THEN Append(log, Warn("No test suite found, skipping tests"))
                          ELSE log
                /\ pc' = "deploy"
                /\ UNCHANGED <<opened, requests, answers, ret, result>>
    /\ UNCHANGED <<inputs, self, exitCode>>

\* run_pipeline, lines 260-266
Deploy ==
    /\ pc = "deploy"
    /\ \E resp \in DeployResponses :
          LET s == deploy_to_environment(argv.script, argv.environment, config, fs,
                                         api_base_url, api_key, resp)
              g == StageGate(s.out, "deployment", "exit")
          IN  /\ requests' = requests \o s.reqs
              /\ opened' = opened \cup s.opens
              /\ config' = s.config
              /\ answers' = Answered("deploy", s, resp)
              /\ ret' = [ret EXCEPT !["deploy"] = s.out]
              /\ pc' = "exit"
              /\ IF g.result = "unset"
                 THEN /\ result' = "True"
                      /\ log' = log \o s.logs
                                 \o <<Info("Pipeline completed successfully")>>
                 ELSE /\ result' = g.result
                      /\ log' = log \o s.logs \o g.logs
    /\ UNCHANGED <<inputs, api_base_url, api_key, exitCode>>

\* main, lines 283-286
Exit ==
    /\ pc = "exit"
    /\ pc' = "halted"
    /\ exitCode' = ExitStatus(result)
    /\ log' = IF result = "raise"
              THEN Append(log, Err("Pipeline execution failed"))
              ELSE log
    /\ UNCHANGED <<inputs, self, opened, requests, answers, ret, result>>

Next == ParseArgs \/ Construct \/ Validate \/ Test \/ Deploy \/ Exit

Spec == Init /\ [][Next]_vars

\* The process is single-threaded and sequential: as long as each file read
\* and each remote call returns or raises, its next step is taken.
FairSpec == Spec /\ WF_vars(Next)

\* what the script file can hold when it is readable
ScriptTexts == {"flow: greet", "flow: greet (edited)"}

\* Another party rewrites the script file while run_pipeline is running:
\* validate_script and deploy_to_environment each open and read the file
\* themselves, so the file can change between the two reads.
Rewrite ==
    /\ pc \in {"validate", "test", "deploy"}
    /\ fs[argv.script] \in ScriptTexts
    /\ \E text \in ScriptTexts \ {fs[argv.script]} :
          fs' = [fs EXCEPT ![argv.script] = text]
    /\ UNCHANGED <<pc, argv, cfgFile, envKey, self, opened, requests, answers, log,
                   ret, result, exitCode>>

SharedNext == Next \/ Rewrite

\* the process with a script file that other parties can write
SharedSpec == Init /\ [][SharedNext]_vars

(* ------------------------- views of the state ------------------------- *)

\* indices of the requests sent to an endpoint
ReqsTo(endpoint) == {i \in DOMAIN requests : requests[i].endpoint = endpoint}

\* the logged lines with the given message text, in order
Logged(text) == SelectSeq(log, LAMBDA l : l.text = text)

\* the state of the pipeline's state machine at the process's position
PipelineState ==
    IF result = "True" THEN "Deployed"
    ELSE IF result # "unset" THEN "Failed"
    ELSE IF ret["tests"] = "True" THEN "Tested"
    ELSE IF ret["validate"] = "True" THEN "Validated"
    ELSE "NotStarted"

(* ------------------------------ claims -------------------------------- *)

\* C1: the first stage that fails ends the run with result false and no
\* later stage is attempted: after validate_script returned false there is
\* no tests/run and no scripts/deploy request and neither later stage was
\* called; after run_tests returned false there is no scripts/deploy request
\* and deploy_to_environment was not called.
C1_ShortCircuit ==
    /\ ret["validate"] = "False" =>
          /\ result = "False"
          /\ ret["tests"] = "unset" /\ ret["deploy"] = "unset"
          /\ ReqsTo("tests/run") = {} /\ ReqsTo("scripts/deploy") = {}
    /\ ret["tests"] = "False" =>
          /\ result = "False"
          /\ ret["deploy"] = "unset"
          /\ ReqsTo("scripts/deploy") = {}

\* the test stage failed on a response of the remote service and the
\* process has exited
C1_Witness ==
    /\ pc = "halted"
    /\ ret["tests"] = "False"
    /\ answers["tests"].kind = "object"
    /\ Len(requests) = 2

\* C2: the stages occur in the order validate, tests, deploy. A tests/run
\* request is sent only after validate_script returned true; a
\* scripts/deploy request only after validate_script returned true and
\* run_tests returned true or was not called; the requests sent are in that
\* order; and the pipeline's state moves only along NotStarted -> Validated
\* -> (Tested) -> Deployed, or from a non-terminal state to Failed.
C2_Endpoints == <<"scripts/validate", "tests/run", "scripts/deploy">>

C2_Rank(endpoint) == CHOOSE k \in 1..3 : C2_Endpoints[k] = endpoint

C2_Path ==
    {<<"NotStarted", "Validated">>, <<"Validated", "Tested">>,
     <<"Validated", "Deployed">>, <<"Tested", "Deployed">>,
     <<"NotStarted", "Failed">>, <<"Validated", "Failed">>, <<"Tested", "Failed">>}

C2_Step ==
    /\ PipelineState' # PipelineState => <<PipelineState, PipelineState'>> \in C2_Path
    /\ \A i \in DOMAIN requests' :
          /\ i \in DOMAIN requests => requests'[i] = requests[i]
          /\ \A j \in DOMAIN requests' :
                i < j => C2_Rank(requests'[i].endpoint) < C2_Rank(requests'[j].endpoint)
          /\ i \notin DOMAIN requests /\ requests'[i].endpoint = "scripts/validate" =>
                PipelineState = "NotStarted"
          /\ i \notin DOMAIN requests /\ requests'[i].endpoint = "tests/run" =>
                PipelineState = "Validated" /\ ret["validate"] = "True"
          /\ i \notin DOMAIN requests /\ requests'[i].endpoint = "scripts/deploy" =>
                /\ PipelineState \in {"Validated", "Tested"}
                /\ ret["validate"] = "True"
                /\ ret["tests"] \in {"True", "unset"}

C2_StrictOrder == [][C2_Step]_vars

\* all three stages ran, tests passed and the deployment succeeded
C2_Witness ==
    /\ Len(requests) = 3
    /\ ret["tests"] = "True"
    /\ PipelineState = "Deployed"

\* C3: with skip_tests false and no file at the conventional test-suite
\* path, run_pipeline (after a successful validate) logs the warning, sends
\* no tests/run request, does not call run_tests and goes on to the deploy
\* stage; it returns false only if deploy_to_environment returned false.
C3_MissingSuiteContinues ==
    (/\ ~argv.skip_tests
     /\ fs[TestSuitePath(argv.script)] = Missing
     /\ ret["validate"] = "True"
     /\ pc # "test")
    => /\ Len(Logged("No test suite found, skipping tests")) = 1
       /\ ReqsTo("tests/run") = {}
       /\ ret["tests"] = "unset"
       /\ pc = "deploy" \/ ret["deploy"] # "unset"
       /\ result = "False" => ret["deploy"] = "False"
       /\ \A i \in DOMAIN log :
             ~(log[i].text = "Pipeline failed" /\ log[i].s1 = "testing")

\* the suite is missing, the warning was logged and the deployment succeeded
C3_Witness ==
    /\ ~argv.skip_tests
    /\ fs[TestSuitePath(argv.script)] = Missing
    /\ Len(Logged("No test suite found, skipping tests")) = 1
    /\ result = "True"
    /\ pc = "halted"

\* C4: for an environment name with no entry in the configuration's
\* environment mapping, deploy_to_environment returns false and sends no
\* request.
C4_UnconfiguredDeployFails ==
    (/\ ret["deploy"] # "unset"
     /\ config.environments[argv.environment] = NoEntry)
    => /\ ret["deploy"] = "False"
       /\ ReqsTo("scripts/deploy") = {}
       /\ answers["deploy"].kind = "none"

\* deploy_to_environment read the script and rejected the environment
C4_Witness ==
    /\ ret["deploy"] = "False"
    /\ config.environments[argv.environment] = NoEntry
    /\ Opens(fs, argv.script)
    /\ Len(Logged("Environment configuration not found")) = 1

\* C5 as stated: in a run whose environment has no entry in the
\* configuration's environment mapping, no request at all is sent: none to
\* scripts/validate, tests/run or scripts/deploy.
C5_NoRemoteCall ==
    config.environments[argv.environment] = NoEntry => requests = <<>>

\* C5, amended: in a run whose environment has no entry in the
\* configuration's environment mapping, no scripts/deploy request is ever
\* sent and run_pipeline never returns true; the rejection happens in the
\* deploy stage, after the validate stage (and the test stage, when it
\* runs) sent their requests.
C5_NoDeployCall ==
    config.environments[argv.environment] = NoEntry
    => /\ ReqsTo("scripts/deploy") = {}
       /\ result # "True"
       /\ ret["deploy"] # "unset" =>
             /\ ret["deploy"] = "False"
             /\ ReqsTo("scripts/validate") # {}

\* the environment was rejected after validate and tests sent their requests
C5_Witness ==
    /\ pc = "halted"
    /\ config # CfgUnset
    /\ config.environments[argv.environment] = NoEntry
    /\ ret["deploy"] = "False"
    /\ ReqsTo("scripts/validate") # {}
    /\ ReqsTo("tests/run") # {}

\* C6: for every response object of tests/run, run_tests returns true if and
\* only if the passed count equals the total count (a missing count reads
\* as 0), so it returns false whenever passed < total; and every entry of
\* the failures list is logged as an error, in order, before run_tests
\* returns (before any line run_pipeline logs afterwards).
C6_TestsPassIffAllPassed ==
    LET a == answers["tests"]
        p == IF a.passed = NoCount THEN 0 ELSE a.passed
        t == IF a.total = NoCount THEN 0 ELSE a.total
        fl == Logged("Test failure")
    IN  a.kind = "object"
        => /\ ret["tests"] = IF p = t THEN "True" ELSE "False"
           /\ p < t => ret["tests"] = "False"
           /\ Len(fl) = Len(a.failures)
           /\ \A i \in DOMAIN fl :
                 /\ fl[i].level = "ERROR"
                 /\ fl[i].s1 = a.failures[i].name
                 /\ fl[i].s2 = a.failures[i].message
           /\ \A i, j \in DOMAIN log :
                 /\ log[i].text = "Test failure"
                 /\ log[j].text \in {"Pipeline failed", "Deploying script"}
                 => i < j

\* fewer tests passed than ran and two different failures were reported
C6_Witness ==
    LET a == answers["tests"]
    IN  /\ a.kind = "object"
        /\ a.passed # NoCount /\ a.total # NoCount /\ a.passed < a.total
        /\ Len(a.failures) = 2 /\ a.failures[1] # a.failures[2]
        /\ ret["tests"] = "False"
        /\ pc = "halted"

\* C7: validate_script returns true when the scripts/validate response
\* reports valid: true, and false when it reports valid: false or has no
\* valid field; in that case one error line with the message and the line
\* number is logged for each entry of the errors list, in order.
C7_ValidateFollowsResponse ==
    LET a == answers["validate"]
        el == Logged("Validation error")
    IN  a.kind = "object"
        => /\ a.valid = "true" => ret["validate"] = "True"
           /\ a.valid # "true" =>
                 /\ ret["validate"] = "False"
                 /\ Len(el) = Len(a.errors)
                 /\ \A i \in DOMAIN el :
                       /\ el[i].level = "ERROR"
                       /\ el[i].s1 = a.errors[i].message
                       /\ el[i].n1 = a.errors[i].line

\* the response reported valid: false with two different diagnostics
C7_Witness ==
    LET a == answers["validate"]
    IN  /\ a.kind = "object"
        /\ a.valid = "false"
        /\ Len(a.errors) = 2 /\ a.errors[1] # a.errors[2]
        /\ ret["validate"] = "False"

\* C8: no stage and no run_pipeline call ends by raising: every stage that
\* was called returned a boolean, run_pipeline returned a boolean, and a
\* stage whose file could not be read, whose request failed in transport or
\* with a non-success status, or whose response was unparsable or not an
\* object returned false. An exception reaches main only from the
\* constructor, before any request is sent.
C8_NoStageErrorPropagates ==
    /\ \A s \in Stages : ret[s] \in {"unset", "True", "False"}
    /\ result \in {"unset", "True", "False"}
    /\ pc = "exit" => result \in {"True", "False"}
    /\ \A s \in Stages : answers[s].kind \in NoBody => ret[s] = "False"
    /\ \A s \in {"validate", "deploy"} :
          ret[s] # "unset" /\ fs[argv.script] \in {Missing, Unreadable}
          => ret[s] = "False"
    /\ ret["tests"] # "unset"
       /\ fs[TestSuitePath(argv.script)] \in {Unreadable, BadYaml}
       => ret["tests"] = "False"
    /\ Len(Logged("Pipeline execution failed")) > 0
       => config = CfgUnset /\ requests = <<>> /\ result = "unset"

\* the deploy request failed with a non-success status and the process
\* exited normally with run_pipeline's false
C8_Witness ==
    /\ pc = "halted"
    /\ answers["deploy"].kind = "http"
    /\ ret["deploy"] = "False"
    /\ result = "False"

\* C9: when the scripts/deploy request is answered with a response object,
\* deploy_to_environment returns true if and only if the response carries
\* a deployment identifier (a non-empty deploymentId); without one it
\* returns false and logs the response's message ('Unknown error' when the
\* response has none).
C9_DeployNeedsIdentifier ==
    LET a == answers["deploy"]
        hasId == a.deploymentId # NoField /\ a.deploymentId # ""
        dl == Logged("Deployment failed")
    IN  a.kind = "object"
        => /\ ret["deploy"] = IF hasId THEN "True" ELSE "False"
           /\ ~hasId =>
                 /\ Len(dl) = 1
                 /\ dl[1].level = "ERROR"
                 /\ dl[1].s1 = IF a.message = NoField THEN "Unknown error" ELSE a.message
           /\ hasId => Len(dl) = 0

\* the response carried a message and no deployment identifier
C9_Witness ==
    LET a == answers["deploy"]
    IN  /\ a.kind = "object"
        /\ a.deploymentId = NoField
        /\ a.message = "quota exceeded"
        /\ ret["deploy"] = "False"

\* C10 as stated: the exit code is 0 exactly when the pipeline was
\* constructed and run_pipeline returned true, and 1 in every other case.
C10_ExitZeroOrOne ==
    pc = "halted"
    => /\ exitCode \in {0, 1}
       /\ exitCode = 0 <=> (config # CfgUnset /\ result = "True")

\* C10, amended: when the argument parser accepts the command line, the
\* exit code is 0 exactly when the pipeline was constructed and
\* run_pipeline returned true, and 1 in every other case (a stage failed,
\* or the constructor raised); when the parser ends the process itself, the
\* exit code is 2 for a usage error and 0 for --help, and no pipeline was
\* constructed.
C10_ExitCode ==
    pc = "halted"
    => IF argv.outcome = "ok"
       THEN /\ exitCode \in {0, 1}
            /\ exitCode = 0 <=> (config # CfgUnset /\ result = "True")
       ELSE /\ exitCode = IF argv.outcome = "help" THEN 0 ELSE 2
            /\ config = CfgUnset
            /\ result = "unset"

\* the pipeline was constructed, run_pipeline returned true and the process
\* exited with 0
C10_Witness ==
    /\ pc = "halted"
    /\ argv.outcome = "ok"
    /\ result = "True"
    /\ exitCode = 0

\* C11: a credential is required to construct the pipeline. When neither
\* CXONE_API_KEY nor the configuration's api_key holds a non-empty value,
\* the constructor raises: the process exits with 1, no stage is called and
\* no request is sent. When CXONE_API_KEY is set and non-empty, every
\* request carries it as its credential, whatever the configuration's
\* api_key is; otherwise every request carries the configuration's api_key.
C11_CredentialRequired ==
    LET envSet == envKey # NoField /\ envKey # ""
        cfgSet == cfgFile.api_key # NoField /\ cfgFile.api_key # ""
    IN  /\ (~envSet /\ ~cfgSet) =>
              /\ pc \in {"parse", "construct", "halted"}
              /\ requests = <<>>
              /\ opened = {}
              /\ \A st \in Stages : ret[st] = "unset"
              /\ result = "unset"
              /\ pc = "halted" /\ argv.outcome = "ok" => exitCode = 1
        /\ \A i \in DOMAIN requests :
              /\ envSet => requests[i].auth = envKey
              /\ ~envSet => requests[i].auth = cfgFile.api_key

\* both credentials are set and differ, and all three requests were sent
C11_Witness ==
    /\ envKey = "env-key"
    /\ cfgFile.api_key = "cfg-key"
    /\ Len(requests) = 3
    /\ \A i \in DOMAIN requests : requests[i].auth = "env-key"

\* C12: when validation passes, the test stage is skipped because no file
\* is at the test-suite path, the environment is configured and the deploy
\* response carries a deployment identifier, run_pipeline returns true and
\* has sent exactly one scripts/validate and one scripts/deploy request and
\* nothing else. Every scripts/deploy request ever sent carries the
\* requested environment name and the business-unit id of that
\* environment's entry in the configuration file.
C12_HappyPathWithoutSuite ==
    /\ (/\ ret["validate"] = "True"
        /\ ~argv.skip_tests
        /\ fs[TestSuitePath(argv.script)] = Missing
        /\ cfgFile.environments[argv.environment].kind = "settings"
        /\ answers["deploy"].kind = "object"
        /\ answers["deploy"].deploymentId \notin {NoField, ""})
       => /\ result = "True"
          /\ Len(requests) = 2
          /\ requests[1].endpoint = "scripts/validate"
          /\ requests[2].endpoint = "scripts/deploy"
          /\ Len(Logged("No test suite found, skipping tests")) = 1
    /\ \A i \in ReqsTo("scripts/deploy") :
          /\ requests[i].data.environment = argv.environment
          /\ requests[i].data.businessUnitId =
                cfgFile.environments[argv.environment].business_unit_id

\* the end-to-end scenario ran to exit code 0
C12_Witness ==
    /\ pc = "halted"
    /\ exitCode = 0
    /\ ~argv.skip_tests
    /\ fs[TestSuitePath(argv.script)] = Missing
    /\ argv.environment = "dev"
    /\ Len(requests) = 2
    /\ requests[2].data.businessUnitId = "BU-1"

\* C13: there are no retries. In a run each of the three endpoints
\* receives at most one request, so at most three requests are sent; a
\* step sends at most one request; and once a stage has returned false (or
\* run_pipeline has returned) no further request is sent, in particular
\* none that repeats or undoes an earlier one.
C13_Step ==
    /\ \A e \in {"scripts/validate", "tests/run", "scripts/deploy"} :
          Cardinality({i \in DOMAIN requests' : requests'[i].endpoint = e}) <= 1
    /\ Len(requests') <= 3
    /\ Len(requests') <= Len(requests) + 1
    /\ \A i \in DOMAIN requests' :
          requests'[i].endpoint \in {"scripts/validate", "tests/run", "scripts/deploy"}
    /\ ((\E st \in Stages : ret[st] = "False") \/ result # "unset")
       => requests' = requests

C13_NoRetries == [][C13_Step]_vars

\* a request failed in transport, the stage returned false and the process
\* exited having sent that one request only
C13_Witness ==
    /\ pc = "halted"
    /\ answers["validate"].kind = "transport"
    /\ ret["validate"] = "False"
    /\ Len(requests) = 1

\* C14: provided every file read and remote call returns or raises, every
\* run of run_pipeline eventually reaches one of the terminal states
\* Deployed (it returned true) or Failed (it returned false); and from a
\* terminal state on, the state, the stage results and the requests sent
\* never change again.
C14_Terminal == result \in {"True", "False"}

C14_Terminates ==
    /\ (pc = "validate") ~> (C14_Terminal /\ PipelineState \in {"Deployed", "Failed"})
    /\ [][C14_Terminal =>
            /\ result' = result
            /\ PipelineState' = PipelineState
            /\ ret' = ret
            /\ requests' = requests]_vars

\* a run that went through all three stages and ended Failed in the last
C14_Witness ==
    /\ pc = "halted"
    /\ PipelineState = "Failed"
    /\ ret["tests"] = "True"
    /\ ret["deploy"] = "False"

\* C15: when skip_tests is true, run_pipeline sends no tests/run request,
\* opens no test-suite file and does not call run_tests, whether or not a
\* file is at the conventional test-suite path; after validate_script
\* returned true the next stage is deploy, and the next request sent (if
\* any) goes to scripts/deploy.
C15_SkipTests ==
    argv.skip_tests
    => /\ ReqsTo("tests/run") = {}
       /\ opened \subseteq {argv.script}
       /\ ret["tests"] = "unset"
       /\ Len(Logged("Running test suite")) = 0
       /\ Len(Logged("No test suite found, skipping tests")) = 0
       /\ (ret["validate"] = "True" /\ pc # "test")
          => pc = "deploy" \/ ret["deploy"] # "unset"
       /\ Len(requests) >= 2 => requests[2].endpoint = "scripts/deploy"

\* tests were skipped although a suite file exists, and the deployment
\* went through
C15_Witness ==
    /\ argv.skip_tests
    /\ fs[TestSuitePath(argv.script)] = "suite: greet"
    /\ ret["deploy"] = "True"
    /\ Len(requests) = 2
    /\ pc = "halted"

\* C16: a run of run_pipeline that returned false has logged exactly one
\* 'Pipeline failed at <stage> stage' error line, naming the stage that
\* returned false (validation, testing or deployment), and no 'Pipeline
\* completed successfully' line; a run that returned true has logged the
\* completion line once and no 'Pipeline failed' line; before run_pipeline
\* returns neither line is logged.
C16_FailedStage ==
    IF ret["validate"] = "False" THEN "validation"
    ELSE IF ret["tests"] = "False" THEN "testing"
    ELSE IF ret["deploy"] = "False" THEN "deployment"
    ELSE "none"

C16_OutcomeLines ==
    LET failed == Logged("Pipeline failed")
        completed == Logged("Pipeline completed successfully")
    IN  /\ result = "False" =>
              /\ Len(failed) = 1
              /\ failed[1].level = "ERROR"
              /\ failed[1].s1 = C16_FailedStage
              /\ C16_FailedStage # "none"
              /\ Len(completed) = 0
              /\ log[Len(log)] = failed[1] \/ pc = "halted"
        /\ result = "True" =>
              /\ Len(completed) = 1
              /\ completed[1].level = "INFO"
              /\ Len(failed) = 0
        /\ result = "unset" => Len(failed) = 0 /\ Len(completed) = 0

\* the test stage failed and the failure line names it
C16_Witness ==
    /\ result = "False"
    /\ ret["tests"] = "False"
    /\ Len(Logged("Pipeline failed")) = 1
    /\ Logged("Pipeline failed")[1].s1 = "testing"

\* C17: the configuration is loaded once, at construction, and never
\* changed afterwards: once the pipeline is constructed, self.config is
\* what the configuration file held, and no step of validate_script,
\* run_tests, deploy_to_environment or run_pipeline changes self.config,
\* self.api_base_url or self.api_key, whatever the stage's outcome.
C17_Constructed == pc \notin {"parse", "construct"} /\ config # CfgUnset

C17_Step ==
    /\ C17_Constructed =>
          /\ config' = config
          /\ api_base_url' = api_base_url
          /\ api_key' = api_key
    /\ C17_Constructed' =>
          /\ config' = cfgFile
          /\ api_base_url' = cfgFile.api_base_url
          /\ api_key' \in {envKey, cfgFile.api_key}

C17_ConfigImmutable == [][C17_Step]_vars

\* all three stages ran, the last one failed, and the configuration is
\* still what the file held
C17_Witness ==
    /\ pc = "halted"
    /\ Len(requests) = 3
    /\ ret["deploy"] = "False"
    /\ config = cfgFile
    /\ config.kind = "mapping"

\* C18: once run_pipeline has returned, its result is true if and only if
\* validate_script returned true, run_tests returned true or was not called,
\* and deploy_to_environment returned true; run_tests is not called exactly
\* when skip_tests is set or no file is at the test-suite path; and a true
\* result implies that a scripts/deploy request was sent and that its
\* response carried a deployment identifier.
C18_ResultIffAllStages ==
    result # "unset"
    => /\ result \in {"True", "False"}
       /\ result = "True" <=>
             /\ ret["validate"] = "True"
             /\ ret["tests"] \in {"True", "unset"}
             /\ ret["deploy"] = "True"
       /\ ret["deploy"] # "unset" =>
             (ret["tests"] = "unset"
                <=> (argv.skip_tests \/ fs[TestSuitePath(argv.script)] = Missing))
       /\ result = "True" =>
             /\ Cardinality(ReqsTo("scripts/deploy")) = 1
             /\ answers["deploy"].kind = "object"
             /\ answers["deploy"].deploymentId \notin {NoField, ""}

\* all three stages returned true
C18_Witness ==
    /\ result = "True"
    /\ ret["validate"] = "True"
    /\ ret["tests"] = "True"
    /\ ret["deploy"] = "True"
    /\ answers["deploy"].deploymentId = "dep-42"

\* C19 as stated: in every run that sends a scripts/deploy request, the
\* script content in the deploy payload is the content that was sent to
\* scripts/validate and reported valid earlier in that run, even when
\* another party can change the script file between the two stages.
C19_DeploysValidatedContent ==
    \A i \in ReqsTo("scripts/deploy") :
       \E j \in ReqsTo("scripts/validate") :
          /\ j < i
          /\ answers["validate"].valid = "true"
          /\ requests[i].data.content = requests[j].data.content

====
